---- MODULE Spec2Model ----
(***************************************************************************)
(* A model of pyutools: io/fileutils.py (can_read_file, copy_link,         *)
(* is_same_file, md5), misc/util.py (verbosity_to_log_level) and           *)
(* theano/debug_mode.py (DebugMode.eval).                                  *)
(*                                                                         *)
(* The functions of fileutils.py are modelled statement by statement as a  *)
(* single-threaded program: pc is the position of the running call, the    *)
(* host's open/read may fail at any attempt, and every system call the     *)
(* running call makes is appended to syscalls.                             *)
(***************************************************************************)
EXTENDS Integers, Sequences, FiniteSets, TLC

\* ------------------------------------------------------------------ bounds
\* Longest file content, in bytes.
MaxLen == 3
\* Largest chunk size of md5's read loop. The code fixes chunk_size to
\* 10 * 1024 * 1024 (fileutils.py:110); the model scales it down to the
\* sizes of its files and lets it range over 1..MaxChunk.
MaxChunk == 3
\* Integer verbosities tried: -MaxVerbosity..MaxVerbosity.
MaxVerbosity == 20
\* Number of Apply nodes (thunks) the linker hands to DebugMode.eval.
MaxNodes == 3

\* ------------------------------------------------------------ file system
Files == {"f1", "f2"}
Bytes == {0, 1}
Contents == UNION {[1..n -> Bytes] : n \in 0..MaxLen}
ChunkSizes == 1..MaxChunk

Min(a, b) == IF a <= b THEN a ELSE b

VARIABLES
    content,     \* Files -> byte sequence: the regular files' contents
    chunk_size,  \* md5's chunk_size (fileutils.py:110), scaled
    pc,          \* position of the running fileutils call, "idle" if none
    call,        \* the running (or last) top-level call: name and arguments
    ret,         \* where the running md5 returns to
    f_path,      \* md5's / can_read_file's path argument
    f_in,        \* the file object of the running function
    hasher,      \* md5's hashlib accumulator state
    fed,         \* the bytes given to hasher.update so far, in order
    digest1,     \* is_same_file: value of the left operand md5(f1)
    pending,     \* what the try block decided, carried through finally
    open_files,  \* number of file descriptors the process holds open
    syscalls,    \* the system calls of the running (or last) top-level call
    result       \* outcome of the last finished top-level call

fileVars == <<content, chunk_size, pc, call, ret, f_path, f_in, hasher, fed,
              digest1, pending, open_files, syscalls, result>>

VARIABLES
    fs,          \* Paths -> directory entry (copy_link's file system)
    fs_before,   \* fs when the last copy_link call started
    link_call,   \* arguments of the last copy_link call
    link_result  \* its outcome

linkVars == <<fs, fs_before, link_call, link_result>>

VARIABLES
    verbosity,   \* argument of the last verbosity_to_log_level call
    level        \* its outcome

utilVars == <<verbosity, level>>

VARIABLES
    pre_func,    \* DebugMode.pre_func
    post_func,   \* DebugMode.post_func
    debug_thunk, \* node -> node.debug_thunk
    ev_pc,       \* position inside DebugMode.eval
    ev_i,        \* eval's argument i (node and fn are node i and thunk i)
    events,      \* what the running (or last) eval call did, in order
    ev_result    \* outcome of the last finished eval call

debugVars == <<pre_func, post_func, debug_thunk, ev_pc, ev_i, events, ev_result>>

vars == <<fileVars, linkVars, utilVars, debugVars>>

\* ------------------------------------------------------------- hashlib.md5
\* MD5 is modelled by a streaming hash of the same shape (an accumulator
\* updated byte by byte, rendered as fixed-width lowercase hexadecimal),
\* with a 16-bit state instead of a 128-bit one.
HashBase == 257
HashMod == 2^16
HexDigits == <<"0", "1", "2", "3", "4", "5", "6", "7",
               "8", "9", "a", "b", "c", "d", "e", "f">>

\* hashlib.md5(): the empty accumulator.
md5_new == 0

\* hasher.update(chunk)
RECURSIVE hasher_update(_, _)
hasher_update(h, chunk) ==
    IF chunk = <<>> THEN h
    ELSE hasher_update(((h * HashBase) + Head(chunk) + 1) % HashMod, Tail(chunk))

\* hasher.hexdigest()
hexdigest(h) ==
    << HexDigits[((h \div 4096) % 16) + 1], HexDigits[((h \div 256) % 16) + 1],
       HexDigits[((h \div 16) % 16) + 1],   HexDigits[(h % 16) + 1] >>

\* --------------------------------------------------------------- values
NoFile == [path |-> "", pos |-> 0, closed |-> TRUE]
IOError(op, path) == [type |-> "IOError", op |-> op, path |-> path]
NoCall == [name |-> "none", args |-> <<>>]
NoResult == [kind |-> "none"]
Return(v) == [kind |-> "return", value |-> v]
Raise(e) == [kind |-> "raise", exc |-> e]
NoPending == [kind |-> "none"]

\* One system call: what, on which path, whether it succeeded, and for a
\* read the number of bytes it returned.
Sys(op, path, ok) == [op |-> op, path |-> path, ok |-> ok, n |-> 0]
SysRead(path, ok, n) == [op |-> "read", path |-> path, ok |-> ok, n |-> n]

\* os.stat(path).st_size
st_size(path) == Len(content[path])

\* f_in.read(n) on a regular file: the next n bytes, fewer at end of file.
file_read(f, n) ==
    SubSeq(content[f.path], f.pos + 1, Min(f.pos + n, Len(content[f.path])))

\* open(path, 'rb') when it succeeds
file_open(path) == [path |-> path, pos |-> 0, closed |-> FALSE]

\* ------------------------------------------------------- fileutils: Init
FilesRest ==
    /\ pc = "idle"
    /\ call = NoCall
    /\ ret = "caller"
    /\ f_path = ""
    /\ f_in = NoFile
    /\ hasher = md5_new
    /\ fed = <<>>
    /\ digest1 = <<>>
    /\ pending = NoPending
    /\ open_files = 0
    /\ syscalls = <<>>
    /\ result = NoResult

FilesInit ==
    /\ content \in [Files -> Contents]
    /\ chunk_size \in ChunkSizes
    /\ FilesRest

\* A caller starts a top-level call: the frame of the previous one is gone.
Begin(name, args, first_pc) ==
    /\ call' = [name |-> name, args |-> args]
    /\ pc' = first_pc
    /\ ret' = "caller"
    /\ f_path' = args[1]
    /\ f_in' = NoFile
    /\ hasher' = md5_new
    /\ fed' = <<>>
    /\ digest1' = <<>>
    /\ pending' = NoPending
    /\ syscalls' = <<>>
    /\ result' = NoResult
    /\ UNCHANGED <<linkVars, utilVars, debugVars, content, chunk_size, open_files>>

\* ------------------------------------------------- can_read_file(path)
CallCanReadFile ==
    /\ pc = "idle"
    /\ \E p \in Files : Begin("can_read_file", <<p>>, "crf_open")

\* assert os.path.isfile(path); try: f_in = open(path, 'rb')
\* except Exception: return False
CanReadOpen ==
    /\ pc = "crf_open"
    /\ \E ok \in BOOLEAN :
        /\ syscalls' = syscalls \o <<Sys("stat", f_path, TRUE), Sys("open", f_path, ok)>>
        /\ IF ok
           THEN /\ f_in' = file_open(f_path)
                /\ open_files' = open_files + 1
                /\ pc' = "crf_read"
                /\ UNCHANGED result
           ELSE /\ result' = Return(FALSE)
                /\ pc' = "idle"
                /\ UNCHANGED <<f_in, open_files>>
    /\ UNCHANGED <<linkVars, utilVars, debugVars, content, chunk_size, call, ret, f_path, hasher, fed, digest1, pending>>

\* Mutant of CanReadRead: no inner except, a failing read leaves the
\* function as an error.
CanReadRead_NoExcept ==
    /\ pc = "crf_read"
    /\ \E ok \in BOOLEAN :
        LET chunk == file_read(f_in, 1) IN
        /\ syscalls' = Append(syscalls, SysRead(f_path, ok, IF ok THEN Len(chunk) ELSE 0))
        /\ f_in' = IF ok THEN [f_in EXCEPT !.pos = @ + Len(chunk)] ELSE f_in
        /\ pending' = IF ok THEN Return(TRUE) ELSE Raise(IOError("read", f_path))
    /\ pc' = "crf_finally"
    /\ UNCHANGED <<linkVars, utilVars, debugVars, content, chunk_size, call, ret,
                   f_path, hasher, fed, digest1, open_files, result>>

\* try: f_in.read(1); return True
\* except Exception: return False
CanReadRead ==
    /\ pc = "crf_read"
    /\ \E ok \in BOOLEAN :
        LET chunk == file_read(f_in, 1) IN
        /\ syscalls' = Append(syscalls, SysRead(f_path, ok, IF ok THEN Len(chunk) ELSE 0))
        /\ f_in' = IF ok THEN [f_in EXCEPT !.pos = @ + Len(chunk)] ELSE f_in
        /\ pending' = Return(ok)
    /\ pc' = "crf_finally"
    /\ UNCHANGED <<linkVars, utilVars, debugVars, content, chunk_size, call, ret, f_path, hasher, fed, digest1,
                   open_files, result>>

\* finally: f_in.close(), then the pending return
CanReadFinally ==
    /\ pc = "crf_finally"
    /\ f_in' = [f_in EXCEPT !.closed = TRUE]
    /\ open_files' = open_files - 1
    /\ syscalls' = Append(syscalls, Sys("close", f_path, TRUE))
    /\ result' = pending
    /\ pc' = "idle"
    /\ UNCHANGED <<linkVars, utilVars, debugVars, content, chunk_size, call, ret, f_path, hasher, fed, digest1, pending>>

\* ------------------------------------------------------------ md5(f_path)
CallMd5 ==
    /\ pc = "idle"
    /\ \E p \in Files : Begin("md5", <<p>>, "md5_open")

\* hasher = hashlib.md5(); f_in = open(f_path, 'rb')
\* The open is outside the try: when it raises, the error leaves md5 (and
\* is_same_file, which has no handler) with no handle to close.
Md5Open ==
    /\ pc = "md5_open"
    /\ hasher' = md5_new
    /\ fed' = <<>>
    /\ \E ok \in BOOLEAN :
        /\ syscalls' = Append(syscalls, Sys("open", f_path, ok))
        /\ IF ok
           THEN /\ f_in' = file_open(f_path)
                /\ open_files' = open_files + 1
                /\ pc' = "md5_read"
                /\ UNCHANGED result
           ELSE /\ result' = Raise(IOError("open", f_path))
                /\ pc' = "idle"
                /\ UNCHANGED <<f_in, open_files>>
    /\ UNCHANGED <<linkVars, utilVars, debugVars, content, chunk_size, call, ret, f_path, digest1, pending>>

\* Mutant of Md5Read: the loop also stops at a chunk shorter than
\* chunk_size, before giving it to the hasher.
Md5Read_DropsShortChunk ==
    /\ pc = "md5_read"
    /\ \E ok \in BOOLEAN :
        LET chunk == file_read(f_in, chunk_size) IN
        IF ~ok
        THEN /\ syscalls' = Append(syscalls, SysRead(f_path, FALSE, 0))
             /\ pending' = Raise(IOError("read", f_path))
             /\ pc' = "md5_finally"
             /\ UNCHANGED <<f_in, hasher, fed>>
        ELSE /\ syscalls' = Append(syscalls, SysRead(f_path, TRUE, Len(chunk)))
             /\ f_in' = [f_in EXCEPT !.pos = @ + Len(chunk)]
             /\ IF Len(chunk) < chunk_size
                THEN /\ pc' = "md5_finally"
                     /\ UNCHANGED <<hasher, fed>>
                ELSE /\ hasher' = hasher_update(hasher, chunk)
                     /\ fed' = fed \o chunk
                     /\ pc' = "md5_read"
             /\ UNCHANGED pending
    /\ UNCHANGED <<linkVars, utilVars, debugVars, content, chunk_size, call, ret,
                   f_path, digest1, open_files, result>>

\* One turn of: while True: chunk = f_in.read(chunk_size)
\*                          if not chunk: break
\*                          hasher.update(chunk)
\* A read that raises leaves the try block with the error pending.
Md5Read ==
    /\ pc = "md5_read"
    /\ \E ok \in BOOLEAN :
        LET chunk == file_read(f_in, chunk_size) IN
        IF ~ok
        THEN /\ syscalls' = Append(syscalls, SysRead(f_path, FALSE, 0))
             /\ pending' = Raise(IOError("read", f_path))
             /\ pc' = "md5_finally"
             /\ UNCHANGED <<f_in, hasher, fed>>
        ELSE /\ syscalls' = Append(syscalls, SysRead(f_path, TRUE, Len(chunk)))
             /\ f_in' = [f_in EXCEPT !.pos = @ + Len(chunk)]
             /\ IF chunk = <<>>
                THEN /\ pc' = "md5_finally"
                     /\ UNCHANGED <<hasher, fed>>
                ELSE /\ hasher' = hasher_update(hasher, chunk)
                     /\ fed' = fed \o chunk
                     /\ pc' = "md5_read"
             /\ UNCHANGED pending
    /\ UNCHANGED <<linkVars, utilVars, debugVars, content, chunk_size, call, ret, f_path, digest1, open_files, result>>

\* Mutant of Md5Finally: no try/finally, the close is skipped when a read
\* has raised.
Md5Finally_NoCloseOnError ==
    /\ pc = "md5_finally"
    /\ IF pending.kind = "raise"
       THEN /\ result' = pending
            /\ pc' = "idle"
            /\ UNCHANGED <<f_in, open_files, syscalls>>
       ELSE /\ f_in' = [f_in EXCEPT !.closed = TRUE]
            /\ open_files' = open_files - 1
            /\ syscalls' = Append(syscalls, Sys("close", f_path, TRUE))
            /\ pc' = "md5_return"
            /\ UNCHANGED result
    /\ UNCHANGED <<linkVars, utilVars, debugVars, content, chunk_size, call, ret,
                   f_path, hasher, fed, digest1, pending>>

\* Mutant of Md5Finally: the error of a failed read is swallowed and the
\* digest of what was read so far is returned.
Md5Finally_Swallow ==
    /\ pc = "md5_finally"
    /\ f_in' = [f_in EXCEPT !.closed = TRUE]
    /\ open_files' = open_files - 1
    /\ syscalls' = Append(syscalls, Sys("close", f_path, TRUE))
    /\ pc' = "md5_return"
    /\ UNCHANGED <<linkVars, utilVars, debugVars, content, chunk_size, call, ret,
                   f_path, hasher, fed, digest1, pending, result>>

\* finally: f_in.close(); a pending error then leaves md5 and its caller.
Md5Finally ==
    /\ pc = "md5_finally"
    /\ f_in' = [f_in EXCEPT !.closed = TRUE]
    /\ open_files' = open_files - 1
    /\ syscalls' = Append(syscalls, Sys("close", f_path, TRUE))
    /\ IF pending.kind = "raise"
       THEN /\ result' = pending
            /\ pc' = "idle"
       ELSE /\ pc' = "md5_return"
            /\ UNCHANGED result
    /\ UNCHANGED <<linkVars, utilVars, debugVars, content, chunk_size, call, ret, f_path, hasher, fed, digest1, pending>>

\* Mutant of IsSameFileResume: the comparison is md5(f1) == md5(f1).
IsSameFileResume_SelfCompare(d) ==
    IF ret = "isf_left"
    THEN /\ digest1' = d
         /\ ret' = "isf_right"
         /\ f_path' = call.args[1]
         /\ pc' = "md5_open"
         /\ UNCHANGED result
    ELSE /\ result' = Return(digest1 = d)
         /\ pc' = "idle"
         /\ UNCHANGED <<digest1, ret, f_path>>

\* return md5(f1) == md5(f2), resumed when one of its md5 calls returns d:
\* the left operand is evaluated first, then the right, then the comparison.
IsSameFileResume(d) ==
    IF ret = "isf_left"
    THEN /\ digest1' = d
         /\ ret' = "isf_right"
         /\ f_path' = call.args[2]
         /\ pc' = "md5_open"
         /\ UNCHANGED result
    ELSE /\ result' = Return(digest1 = d)
         /\ pc' = "idle"
         /\ UNCHANGED <<digest1, ret, f_path>>

\* return hasher.hexdigest()
Md5Return ==
    /\ pc = "md5_return"
    /\ IF ret = "caller"
       THEN /\ result' = Return(hexdigest(hasher))
            /\ pc' = "idle"
            /\ UNCHANGED <<digest1, ret, f_path>>
       ELSE IsSameFileResume(hexdigest(hasher))
    /\ UNCHANGED <<linkVars, utilVars, debugVars, content, chunk_size, call, f_in, hasher, fed, pending,
                   open_files, syscalls>>

\* ------------------------------------------------------ is_same_file(f1, f2)
CallIsSameFile ==
    /\ pc = "idle"
    /\ \E a \in Files, b \in Files : Begin("is_same_file", <<a, b>>, "isf_stat")

\* Mutant of IsSameFileStat: the sizes are not compared, md5 decides alone.
IsSameFileStat_NoSizeCheck ==
    /\ pc = "isf_stat"
    /\ syscalls' = syscalls \o
           << Sys("stat", call.args[1], TRUE), Sys("stat", call.args[2], TRUE) >>
    /\ ret' = "isf_left"
    /\ f_path' = call.args[1]
    /\ pc' = "md5_open"
    /\ UNCHANGED <<linkVars, utilVars, debugVars, content, chunk_size, call, f_in,
                   hasher, fed, digest1, pending, open_files, result>>

\* assert os.path.isfile(f1) and os.path.isfile(f2)
\* stats = map(os.stat, (f1, f2))       (a list, as Python 2's map returns)
\* if stats[0].st_size != stats[1].st_size: return False
\* otherwise go on to md5(f1)
IsSameFileStat ==
    /\ pc = "isf_stat"
    /\ syscalls' = syscalls \o
           << Sys("stat", call.args[1], TRUE), Sys("stat", call.args[2], TRUE),
              Sys("stat", call.args[1], TRUE), Sys("stat", call.args[2], TRUE) >>
    /\ IF st_size(call.args[1]) # st_size(call.args[2])
       THEN /\ result' = Return(FALSE)
            /\ pc' = "idle"
            /\ UNCHANGED <<ret, f_path>>
       ELSE /\ ret' = "isf_left"
            /\ f_path' = call.args[1]
            /\ pc' = "md5_open"
            /\ UNCHANGED result
    /\ UNCHANGED <<linkVars, utilVars, debugVars, content, chunk_size, call, f_in, hasher, fed, digest1, pending,
                   open_files>>

\* ---------------------------------------------------- copy_link(src, dst)
\* One flat directory. A link's target is a literal string: it may name a
\* path of the directory or nothing at all.
Paths == {"a", "b", "c"}
Targets == Paths \cup {"/tmp/foo"}
FileData == {"x", "y"}

Entry(kind, data, target) == [kind |-> kind, data |-> data, target |-> target]
Missing == Entry("missing", "", "")
Dir == Entry("dir", "", "")
RegFile(d) == Entry("file", d, "")
Link(t) == Entry("link", "", t)
Entries == {Missing, Dir} \cup {RegFile(d) : d \in FileData} \cup {Link(t) : t \in Targets}

\* What a path resolves to when links are followed; a dangling link or a
\* loop of links resolves to nothing.
RECURSIVE Follow(_, _, _)
Follow(fsx, p, fuel) ==
    IF p \notin Paths THEN Missing
    ELSE IF fsx[p].kind # "link" THEN fsx[p]
    ELSE IF fuel = 0 THEN Missing
    ELSE Follow(fsx, fsx[p].target, fuel - 1)

\* os.path.islink(p): lstat, the entry itself
os_path_islink(fsx, p) == fsx[p].kind = "link"
\* os.path.exists(p): stat, which follows links
os_path_exists(fsx, p) == Follow(fsx, p, Cardinality(Paths)).kind # "missing"
\* os.readlink(p)
os_readlink(fsx, p) == fsx[p].target

OSError(msg) == [type |-> "OSError", msg |-> msg]
NoError == [type |-> "none", msg |-> ""]
Outcome(e, fsx) == [raised |-> e, fs |-> fsx]

\* os.symlink(target, dst): the host refuses with EEXIST ("File exists")
\* when dst names any entry, a dangling link included; otherwise dst becomes
\* a link holding target.
os_symlink(fsx, target, dst) ==
    IF fsx[dst].kind # "missing" THEN Outcome(OSError("EEXIST"), fsx)
    ELSE Outcome(NoError, [fsx EXCEPT ![dst] = Link(target)])

\* Mutant of copy_link: the new link points at src itself, not at what src
\* holds (os.symlink(src, dst)).
copy_link_LinksToSrc(fsx, src, dst) ==
    IF ~os_path_islink(fsx, src)
    THEN Outcome(OSError("Not a symbolic link"), fsx)
    ELSE IF os_path_exists(fsx, dst)
    THEN Outcome(OSError("Destination already exists"), fsx)
    ELSE os_symlink(fsx, src, dst)

\* if not os.path.islink(src): raise OSError('Not a symbolic link: %s' % src)
\* if os.path.exists(dst): raise OSError('Destination already exists: %s' % dst)
\* link_info = os.readlink(src); os.symlink(link_info, dst)
copy_link(fsx, src, dst) ==
    IF ~os_path_islink(fsx, src)
    THEN Outcome(OSError("Not a symbolic link"), fsx)
    ELSE IF os_path_exists(fsx, dst)
    THEN Outcome(OSError("Destination already exists"), fsx)
    ELSE os_symlink(fsx, os_readlink(fsx, src), dst)

LinkRest ==
    /\ fs_before = fs
    /\ link_call = [src |-> "", dst |-> ""]
    /\ link_result = NoResult

LinkInit ==
    /\ fs \in [Paths -> Entries]
    /\ LinkRest

CopyLink ==
    \E src \in Paths, dst \in Paths :
        LET out == copy_link(fs, src, dst) IN
        /\ fs_before' = fs
        /\ link_call' = [src |-> src, dst |-> dst]
        /\ fs' = out.fs
        /\ link_result' = IF out.raised.type = "none" THEN Return("None")
                          ELSE Raise(out.raised)
        /\ UNCHANGED <<fileVars, utilVars, debugVars>>

\* ------------------------------------------- verbosity_to_log_level(verbosity)
\* Python values a caller may pass. A float is held as twice its value, so
\* that halves are integers; a string is held as the digit it spells.
PyInt(n) == [type |-> "int", val |-> n]
PyBool(b) == [type |-> "bool", val |-> IF b THEN 1 ELSE 0]
PyFloat(twice) == [type |-> "float", val |-> twice]
PyNone == [type |-> "NoneType", val |-> 0]
PyStr(digit) == [type |-> "str", val |-> digit]

Verbosities ==
    {PyInt(n) : n \in -MaxVerbosity..MaxVerbosity}
    \cup {PyBool(b) : b \in BOOLEAN}
    \cup {PyFloat(t) : t \in (-2 * MaxVerbosity)..(2 * MaxVerbosity)}
    \cup {PyNone} \cup {PyStr(d) : d \in 0..2}

\* Python's v == n for an int literal n
py_eq(v, n) ==
    CASE v.type \in {"int", "bool"} -> v.val = n
      [] v.type = "float" -> v.val = 2 * n
      [] OTHER -> FALSE

\* Mutant of verbosity_to_log_level: the last branch is a plain else, any
\* other verbosity counts as "at least 2".
verbosity_to_log_level_Clamped(v) ==
    IF py_eq(v, 0) THEN Return("ERROR")
    ELSE IF py_eq(v, 1) THEN Return("INFO")
    ELSE Return("DEBUG")

\* logging.ERROR, logging.INFO and logging.DEBUG are held by name.
verbosity_to_log_level(v) ==
    IF py_eq(v, 0) THEN Return("ERROR")
    ELSE IF py_eq(v, 1) THEN Return("INFO")
    ELSE IF py_eq(v, 2) THEN Return("DEBUG")
    ELSE Raise("ValueError")

UtilInit ==
    /\ verbosity = PyNone
    /\ level = NoResult

CallVerbosityToLogLevel ==
    \E v \in Verbosities :
        /\ verbosity' = v
        /\ level' = verbosity_to_log_level(v)
        /\ UNCHANGED <<fileVars, linkVars, debugVars>>

\* ------------------------------------------------ DebugMode.eval(i, node, fn)
Nodes == 1..MaxNodes
Unset == 0
Event(what, i, ok) == [what |-> what, i |-> i, ok |-> ok]

\* __init__: self.pre_func = pre_func; self.post_func = post_func, each a
\* function or None; no node has run yet.
DebugRest ==
    /\ debug_thunk = [n \in Nodes |-> Unset]
    /\ ev_pc = "idle"
    /\ ev_i = 1
    /\ events = <<>>
    /\ ev_result = NoResult

DebugInit ==
    /\ pre_func \in {"None", "pre_func"}
    /\ post_func \in {"None", "post_func"}
    /\ DebugRest

\* The wrapping linker calls eval for thunk i: node is node i, fn its thunk.
EvalCall ==
    \E i \in Nodes :
        /\ ev_pc = "idle"
        /\ ev_i' = i
        /\ ev_pc' = "set"
        /\ events' = <<>>
        /\ ev_result' = NoResult
        /\ UNCHANGED <<fileVars, linkVars, utilVars, pre_func, post_func, debug_thunk>>

\* node.debug_thunk = fn
EvalSetThunk ==
    /\ ev_pc = "set"
    /\ debug_thunk' = [debug_thunk EXCEPT ![ev_i] = ev_i]
    /\ events' = Append(events, Event("set", ev_i, TRUE))
    /\ ev_pc' = "pre"
    /\ UNCHANGED <<fileVars, linkVars, utilVars, pre_func, post_func, ev_i, ev_result>>

\* if self.pre_func is not None: self.pre_func(i, node, fn)
EvalPre ==
    /\ ev_pc = "pre"
    /\ IF pre_func = "None"
       THEN /\ ev_pc' = "fn"
            /\ UNCHANGED <<events, ev_result>>
       ELSE \E ok \in BOOLEAN :
            /\ events' = Append(events, Event("pre_func", ev_i, ok))
            /\ IF ok
               THEN ev_pc' = "fn" /\ UNCHANGED ev_result
               ELSE ev_pc' = "idle" /\ ev_result' = Raise("pre_func")
    /\ UNCHANGED <<fileVars, linkVars, utilVars, pre_func, post_func, debug_thunk, ev_i>>

\* Mutant of EvalFn: the thunk runs inside try/finally, post_func is
\* reached even when the thunk raises.
EvalFn_ThenPostAnyway ==
    /\ ev_pc = "fn"
    /\ \E ok \in BOOLEAN :
        /\ events' = Append(events, Event("fn", ev_i, ok))
        /\ ev_pc' = "post"
        /\ UNCHANGED ev_result
    /\ UNCHANGED <<fileVars, linkVars, utilVars, pre_func, post_func, debug_thunk, ev_i>>

\* fn()
EvalFn ==
    /\ ev_pc = "fn"
    /\ \E ok \in BOOLEAN :
        /\ events' = Append(events, Event("fn", ev_i, ok))
        /\ IF ok
           THEN ev_pc' = "post" /\ UNCHANGED ev_result
           ELSE ev_pc' = "idle" /\ ev_result' = Raise("fn")
    /\ UNCHANGED <<fileVars, linkVars, utilVars, pre_func, post_func, debug_thunk, ev_i>>

\* if self.post_func is not None: self.post_func(i, node, fn)
EvalPost ==
    /\ ev_pc = "post"
    /\ ev_pc' = "idle"
    /\ IF post_func = "None"
       THEN /\ ev_result' = Return("None")
            /\ UNCHANGED events
       ELSE \E ok \in BOOLEAN :
            /\ events' = Append(events, Event("post_func", ev_i, ok))
            /\ ev_result' = IF ok THEN Return("None") ELSE Raise("post_func")
    /\ UNCHANGED <<fileVars, linkVars, utilVars, pre_func, post_func, debug_thunk, ev_i>>

\* ---------------------------------------------------------- specifications
\* Each specification runs the functions of one source file; the state of
\* the others stays as it is when nothing of theirs has been called.
FilesQuiet ==
    /\ content = [f \in Files |-> <<>>]
    /\ chunk_size = 1
    /\ FilesRest

LinkQuiet ==
    /\ fs = [p \in Paths |-> Missing]
    /\ LinkRest

DebugQuiet ==
    /\ pre_func = "None"
    /\ post_func = "None"
    /\ DebugRest

\* The reading functions of fileutils.py: can_read_file, md5, is_same_file.
Init == FilesInit /\ LinkQuiet /\ UtilInit /\ DebugQuiet

Next ==
    \/ CallCanReadFile
    \/ CanReadOpen
    \/ CanReadRead
    \/ CanReadFinally
    \/ CallMd5
    \/ Md5Open
    \/ Md5Read
    \/ Md5Finally
    \/ Md5Return
    \/ CallIsSameFile
    \/ IsSameFileStat

Spec == Init /\ [][Next]_vars

\* copy_link
InitLink == LinkInit /\ FilesQuiet /\ UtilInit /\ DebugQuiet

NextLink == CopyLink

SpecLink == InitLink /\ [][NextLink]_vars

\* verbosity_to_log_level
InitUtil == UtilInit /\ FilesQuiet /\ LinkQuiet /\ DebugQuiet

NextUtil == CallVerbosityToLogLevel

SpecUtil == InitUtil /\ [][NextUtil]_vars

\* DebugMode
InitDebug == DebugInit /\ FilesQuiet /\ LinkQuiet /\ UtilInit

NextDebug ==
    \/ EvalCall
    \/ EvalSetThunk
    \/ EvalPre
    \/ EvalFn
    \/ EvalPost

SpecDebug == InitDebug /\ [][NextDebug]_vars

\* ================================================================ claims
\* Helpers to read the record of a call.
Idx(q) == DOMAIN q
Arg(k) == call.args[k]
Finished(name) == pc = "idle" /\ call.name = name /\ result.kind # "none"
Reads == {k \in Idx(syscalls) : syscalls[k].op = "read"}
Failed == {k \in Idx(syscalls) : ~syscalls[k].ok}
OpensOk == {k \in Idx(syscalls) : syscalls[k].op = "open" /\ syscalls[k].ok}
Closes == {k \in Idx(syscalls) : syscalls[k].op = "close"}
\* The digest of a whole byte string hashed in one piece.
WholeDigest(bytes) == hexdigest(hasher_update(md5_new, bytes))

\* Two byte strings of one length that differ at exactly one position.
DifferInOneByte(x, y) ==
    /\ Len(x) = Len(y)
    /\ Cardinality({k \in 1..Len(x) : x[k] # y[k]}) = 1

C3_ChunkingInvariant ==
    call.name = "md5"
    => /\ Cardinality(Reads) <= Len(content[Arg(1)]) + 1
       /\ \A k \in Reads : syscalls[k].n <= chunk_size
       /\ \A k \in Reads :
            (syscalls[k].ok /\ syscalls[k].n = 0) => (\A j \in Reads : j <= k)
       /\ (pc = "idle" /\ result.kind = "return")
            => /\ fed = content[Arg(1)]
               /\ result.value = WholeDigest(content[Arg(1)])
               /\ \E k \in Reads : syscalls[k].ok /\ syscalls[k].n = 0

C3_Witness ==
    /\ Finished("md5")
    /\ result.kind = "return"
    /\ Len(content[Arg(1)]) > chunk_size
    /\ Len(content[Arg(1)]) % chunk_size # 0
    /\ chunk_size > 1

\* C4: once can_read_file, md5 or is_same_file has returned or raised, the
\* process holds no file open: every handle the call opened is closed.
C4_NoHandleLeft ==
    /\ open_files \in {0, 1}
    /\ pc = "idle"
         => /\ open_files = 0
            /\ f_in.closed
            /\ Cardinality(OpensOk) = Cardinality(Closes)

C4_Witness ==
    /\ Finished("is_same_file")
    /\ result.kind = "raise"
    /\ result.exc.op = "read"
    /\ Cardinality(OpensOk) = 2

\* C5: can_read_file never raises: it returns True when the open and the
\* read of one byte both succeed, and False when either fails.
C5_ProbeNeverRaises ==
    Finished("can_read_file")
    => /\ result.kind = "return"
       /\ result.value = (OpensOk # {} /\ \E k \in Reads : syscalls[k].ok)
       /\ result.value = (Failed = {})

C5_Witness ==
    /\ Finished("can_read_file")
    /\ OpensOk # {}
    /\ \E k \in Reads : ~syscalls[k].ok
    /\ result.value = FALSE

\* C6: in md5 and in is_same_file a failed open or read is the last thing
\* tried (nothing but the close follows it), and the call ends by raising
\* that very error: no digest and no boolean is returned.
C6_FailurePropagates ==
    call.name \in {"md5", "is_same_file"}
    => \A k \in Failed :
         /\ \A j \in Idx(syscalls) : j > k => syscalls[j].op = "close"
         /\ pc \in {"md5_finally", "idle"}
         /\ pc = "idle" =>
              /\ result.kind = "raise"
              /\ result.exc = IOError(syscalls[k].op, syscalls[k].path)

C6_Witness ==
    /\ Finished("is_same_file")
    /\ Arg(1) # Arg(2)
    /\ result.kind = "raise"
    /\ result.exc = IOError("read", Arg(2))
    /\ Len(fed) > 0

\* ---------------------------------------------------------------- copy_link
Called == link_result.kind # "none"
Src == link_call.src
Dst == link_call.dst
RaisedMsg(msg) == link_result.kind = "raise" /\ link_result.exc = OSError(msg)

\* C7: copy_link raises "Not a symbolic link" when src is no link, raises
\* "Destination already exists" when (src being a link) dst exists in any
\* form, a symbolic link included, and a failing call changes nothing.
C7_ErrorsAsClaimed ==
    Called
    => /\ fs_before[Src].kind # "link" => RaisedMsg("Not a symbolic link")
       /\ (fs_before[Src].kind = "link" /\ fs_before[Dst].kind # "missing")
            => RaisedMsg("Destination already exists")
       /\ link_result.kind = "raise" => fs = fs_before

\* What the code does keep of C7: a call that fails changes nothing, every
\* call on an existing dst fails, and an existing dst is never replaced.
C7_NothingOverwritten ==
    Called
    => /\ link_result.kind = "raise" => fs = fs_before
       /\ fs_before[Src].kind # "link" => RaisedMsg("Not a symbolic link")
       /\ fs_before[Dst].kind # "missing"
            => (link_result.kind = "raise" /\ fs[Dst] = fs_before[Dst])

\* C8: when src is a symbolic link and dst names nothing, copy_link returns,
\* dst is then a symbolic link holding src's literal target string, and no
\* other entry (src and what it points to included) has changed.
C8_LinkCopied ==
    (Called /\ fs_before[Src].kind = "link" /\ fs_before[Dst].kind = "missing")
    => /\ link_result.kind = "return"
       /\ fs[Dst] = Link(fs_before[Src].target)
       /\ \A p \in Paths \ {Dst} : fs[p] = fs_before[p]
       /\ {p \in Paths : fs[p] # fs_before[p]} = {Dst}

C8_Witness ==
    /\ Called
    /\ link_result.kind = "return"
    /\ fs_before[Src].kind = "link"
    /\ fs_before[Src].target \in Paths
    /\ fs_before[fs_before[Src].target].kind = "file"
    /\ fs[Dst].kind = "link"

\* ------------------------------------------------------ verbosity_to_log_level
\* C9: verbosity 0 gives ERROR, 1 gives INFO, 2 gives DEBUG; every other
\* integer, and every value that is not equal to 0, 1 or 2, raises
\* ValueError; nothing but these three levels is ever returned.
C9_VerbosityMapping ==
    (level.kind # "none")
    => /\ verbosity = PyInt(0) => (level.kind = "return" /\ level.value = "ERROR")
       /\ verbosity = PyInt(1) => (level.kind = "return" /\ level.value = "INFO")
       /\ verbosity = PyInt(2) => (level.kind = "return" /\ level.value = "DEBUG")
       /\ (verbosity.type = "int" /\ verbosity.val \notin {0, 1, 2})
            => (level.kind = "raise" /\ level.exc = "ValueError")
       /\ verbosity.type \in {"NoneType", "str"}
            => (level.kind = "raise" /\ level.exc = "ValueError")
       /\ (verbosity.type = "float" /\ verbosity.val \notin {0, 2, 4})
            => (level.kind = "raise" /\ level.exc = "ValueError")
       /\ level.kind = "return" => level.value \in {"ERROR", "INFO", "DEBUG"}
       /\ level.kind = "raise" => level.exc = "ValueError"

C9_Witness ==
    /\ verbosity = PyInt(3)
    /\ level.kind = "raise"

\* ------------------------------------------------------------ DebugMode.eval
\* What a complete eval call does, in order, for this DebugMode.
EvalPlan ==
    <<"set">> \o (IF pre_func = "None" THEN <<>> ELSE <<"pre_func">>)
              \o <<"fn">>
              \o (IF post_func = "None" THEN <<>> ELSE <<"post_func">>)

\* C10: in every eval call the events are, in this order, node.debug_thunk
\* set to fn, pre_func(i, node, fn) if there is a pre_func, fn once,
\* post_func(i, node, fn) if there is a post_func; nothing follows an event
\* that raised (no fn after a failed pre_func, no post_func after a failed
\* fn), and a call that returns has done all of them.
C10_EvalOrder ==
    /\ Len(events) <= Len(EvalPlan)
    /\ \A k \in Idx(events) :
         /\ events[k].what = EvalPlan[k]
         /\ events[k].i = ev_i
         /\ k < Len(events) => events[k].ok
    /\ events # <<>> => (events[1].ok /\ debug_thunk[ev_i] = ev_i)
    /\ ev_result.kind = "return"
         => (Len(events) = Len(EvalPlan) /\ \A k \in Idx(events) : events[k].ok)
    /\ ev_result.kind = "raise"
         => (events # <<>> /\ ~events[Len(events)].ok
             /\ events[Len(events)].what = ev_result.exc)

C10_Witness ==
    /\ pre_func # "None"
    /\ post_func # "None"
    /\ ev_result.kind = "return"
    /\ Len(events) = 4
    /\ ev_i > 1

====
